---- MODULE Spec2Model ----
(***************************************************************************)
(* Model of the pipeline editor's logical core:                            *)
(*   - GraphValidator, the backend computation behind POST /pipelines/parse *)
(*     (node count, edge count, cycle detection by three-colour DFS);      *)
(*   - PipelineAPI (frontend/src/api/pipelineAPI.js): client-side          *)
(*     validation, request, response check and retry loop;                 *)
(*   - the variable scanner (frontend/src/utils/variableParser.js);        *)
(*   - the text node (frontend/src/nodes/textNode.js), the submit button   *)
(*     (frontend/src/draggableNode.js) and the handles of BaseNode         *)
(*     (frontend/src/components/BaseNode.js).                              *)
(* Each component has its own specification (SpecGraph, SpecSubmit and     *)
(* SpecSubmitFair, SpecScan, SpecScanSeq, SpecTextNode, SpecButton,        *)
(* SpecBaseNode); the variables of the other components stay at rest.      *)
(***************************************************************************)
EXTENDS Integers, Sequences, FiniteSets, TLC

VARIABLES
    \* ---- GraphValidator (backend) ----
    gNodes,      \* node identifiers of the request, in the order supplied
    gEdges,      \* edges of the request, records [source, target]
    gColor,      \* DFS working memory as the latest validation left it
    gResult,     \* result of the latest validation of (gNodes, gEdges)
    gFirst,      \* result of the first validation of (gNodes, gEdges)
    gCalls,      \* validations of (gNodes, gEdges) so far: 0, 1, or 2 for "more"
    gBetween,    \* a request for another graph was served after the first one
    \* ---- PipelineAPI.submitPipeline (client) ----
    inNodes,     \* the nodes argument, a JavaScript value
    inEdges,     \* the edges argument, a JavaScript value
    pc,          \* position of the submitPipeline call
    attempt,     \* loop variable of the retry loop
    requests,    \* bodies handed to fetch so far, in order
    sleeps,      \* delays passed to sleep so far, in order
    lastError,   \* submitPipeline's lastError
    outcome,     \* what the call resolved or rejected with
    \* ---- variable scanner ----
    text,        \* the text argument, a sequence of one-character strings
    lastIndex,   \* VARIABLE_REGEX.lastIndex (module-level state)
    called,      \* the scanner function called last on text, "none" at first
    result,      \* what that call returned
    sFirst,      \* what the first parseVariables(text) returned
    sCalls,      \* parseVariables(text) calls so far: 0, 1, or 2 for "more"
    sBetween,    \* another text was scanned after the first parseVariables(text)
    \* ---- TextNodeContent / TextNode (frontend/src/nodes/textNode.js) ----
    currText,           \* state currText
    detectedVariables,  \* state detectedVariables
    handles,            \* the handles of the node as rendered
    \* ---- SubmitButton ----
    isLoading,    \* state isLoading
    errorState,   \* state error (NoError for null)
    successData,  \* state successData (NoData for null)
    retryCount,   \* state retryCount
    inFlight,     \* pipelineAPI.submitPipeline calls of the component that are pending
    healthChecks, \* pipelineAPI.healthCheck calls of the component that are pending
    \* ---- BaseNode (frontend/src/components/BaseNode.js and its second copy) ----
    cfgHandles,   \* config.handles, a sequence of handle configurations
    rendered,     \* the handles as rendered last, in document order
    renderedBy    \* the copy of BaseNode that rendered them, "none" at first

graphVars == <<gNodes, gEdges, gColor, gResult, gFirst, gCalls, gBetween>>
submitVars == <<inNodes, inEdges, pc, attempt, requests, sleeps, lastError, outcome>>
scanVars == <<text, lastIndex, called, result>>
seqVars == <<sFirst, sCalls, sBetween>>
textVars == <<currText, detectedVariables, handles>>
buttonVars == <<isLoading, errorState, successData, retryCount, inFlight, healthChecks>>
nodeVars == <<cfgHandles, rendered, renderedBy>>
frontVars == <<seqVars, textVars, buttonVars, nodeVars>>
vars == <<graphVars, submitVars, scanVars, frontVars>>

\* A value that stands for "absent": JavaScript undefined / null, no result yet.
None == "none"

(***************************************************************************)
(* Small helpers on sequences.                                             *)
(***************************************************************************)
Range(s) == {s[i] : i \in 1..Len(s)}

SeqsUpTo(S, n) == UNION {[1..k -> S] : k \in 0..n}

Contains(s, x) == \E i \in 1..Len(s) : s[i] = x

(***************************************************************************)
(* GraphValidator                                                          *)
(***************************************************************************)
\* Bounds of the graphs that are validated.
MaxNodes == 3
MaxEdges == 2

Ids == {"A", "B", "C"}

EdgeRecs == [source : Ids, target : Ids]

\* Node identifiers in first-seen order, duplicates removed.
RECURSIVE DistinctFrom(_, _, _)
DistinctFrom(s, i, acc) ==
    IF i > Len(s) THEN acc
    ELSE IF Contains(acc, s[i]) THEN DistinctFrom(s, i + 1, acc)
    ELSE DistinctFrom(s, i + 1, Append(acc, s[i]))

DistinctNodes(nodes) == DistinctFrom(nodes, 1, <<>>)

\* num_nodes: cardinality of the node set as provided.
NumNodesLen(nodes) == Len(nodes)
NumNodes(nodes) == Len(DistinctNodes(nodes))

\* num_edges: length of the edge sequence as provided.
NumEdges(nodes, edges) == Len(edges)

\* Endpoints of the edges in order of appearance (source, then target).
RECURSIVE EndpointsFrom(_, _)
EndpointsFrom(edges, i) ==
    IF i > Len(edges) THEN <<>>
    ELSE <<edges[i].source, edges[i].target>> \o EndpointsFrom(edges, i + 1)

\* The vertices of the traversal: the supplied nodes, then every endpoint that
\* is not among them (an implicitly added node).
Vertices(nodes, edges) == DistinctNodes(nodes \o EndpointsFrom(edges, 1))

\* Outgoing targets of u, in edge order.
RECURSIVE TargetsFrom(_, _, _)
TargetsFrom(edges, u, i) ==
    IF i > Len(edges) THEN <<>>
    ELSE IF edges[i].source = u
         THEN <<edges[i].target>> \o TargetsFrom(edges, u, i + 1)
         ELSE TargetsFrom(edges, u, i + 1)

\* Directed adjacency mapping from each vertex to its outgoing targets.
AdjacencyNoSelf(nodes, edges) ==
    [u \in Range(Vertices(nodes, edges)) |->
        SelectSeq(TargetsFrom(edges, u, 1), LAMBDA v : v # u)]
Adjacency(nodes, edges) ==
    [u \in Range(Vertices(nodes, edges)) |-> TargetsFrom(edges, u, 1)]

\* Three colours: unvisited / in progress / done.
White == "white"
Gray == "gray"
Black == "black"

FreshColor(vs) == [u \in Range(vs) |-> White]

\* A back-edge: the target is in progress.
IsBackEdgeVisited(color, v) == color[v] # White
IsBackEdge(color, v) == color[v] = Gray

\* The roots of the traversal: every vertex.
RootsFirstOnly(vs) == IF vs = <<>> THEN <<>> ELSE <<vs[1]>>
Roots(vs) == vs

\* Depth-first traversal; st = [color, cyc].  DfsVisit colours u in progress,
\* walks its outgoing edges and colours it done; DfsEdges walks targets i.. of
\* one vertex and stops at the first back-edge.
RECURSIVE DfsVisit(_, _, _), DfsEdges(_, _, _, _)
DfsVisit(adj, u, st) ==
    LET entered == [st EXCEPT !.color[u] = Gray]
        walked == DfsEdges(adj, adj[u], 1, entered)
    IN  IF walked.cyc THEN walked
        ELSE [walked EXCEPT !.color[u] = Black]

DfsEdges(adj, tgts, i, st) ==
    IF i > Len(tgts) \/ st.cyc THEN st
    ELSE LET v == tgts[i] IN
         IF IsBackEdge(st.color, v) THEN [st EXCEPT !.cyc = TRUE]
         ELSE IF st.color[v] = White
              THEN DfsEdges(adj, tgts, i + 1, DfsVisit(adj, v, st))
              ELSE DfsEdges(adj, tgts, i + 1, st)

\* Every root in turn, skipping those a previous traversal reached.
RECURSIVE DfsRoots(_, _, _, _)
DfsRoots(adj, roots, i, st) ==
    IF i > Len(roots) \/ st.cyc THEN st
    ELSE IF st.color[roots[i]] = White
         THEN DfsRoots(adj, roots, i + 1, DfsVisit(adj, roots[i], st))
         ELSE DfsRoots(adj, roots, i + 1, st)

\* The colouring a validation starts from: constructed fresh on each request.
StartColorLeftover(vs, left) ==
    [u \in Range(vs) |-> IF u \in DOMAIN left THEN left[u] ELSE White]
StartColor(vs, left) == FreshColor(vs)

\* The traversal of one request; left is the working memory an earlier request
\* left behind.
Traverse(nodes, edges, left) ==
    LET vs == Vertices(nodes, edges)
    IN  DfsRoots(Adjacency(nodes, edges), Roots(vs), 1,
                 [color |-> StartColor(vs, left), cyc |-> FALSE])

\* The response { num_nodes, num_edges, is_dag }.
ResponseNeedsEdges(nodes, edges, cyc) ==
    [num_nodes |-> NumNodes(nodes),
     num_edges |-> NumEdges(nodes, edges),
     is_dag |-> ~cyc /\ Len(edges) > 0]
ResponseOf(nodes, edges, cyc) ==
    [num_nodes |-> NumNodes(nodes),
     num_edges |-> NumEdges(nodes, edges),
     is_dag |-> ~cyc]

GraphValidator(nodes, edges) ==
    ResponseOf(nodes, edges, Traverse(nodes, edges, <<>>).cyc)

(***************************************************************************)
(* PipelineAPI (frontend/src/api/pipelineAPI.js)                           *)
(***************************************************************************)
\* constructor
Timeout == 30000
MaxRetries == 3
RetryDelay == 1000

\* error.status of an error object that has no status property (undefined).
NoStatus == -1

\* Messages are sequences of pieces; the pieces that isRetryableError and
\* makeRequest search for are kept as pieces of their own.
Includes(message, piece) == Contains(message, piece)

NoError ==
    [name |-> "none", type |-> "none", status |-> NoStatus, message |-> <<>>,
     attempts |-> 0, original |-> <<>>, data |-> "null"]

\* new PipelineAPIError(message, status, type, details = null)
PipelineAPIError(message, status, type) ==
    [name |-> "PipelineAPIError", type |-> type, status |-> status,
     message |-> message, attempts |-> 0, original |-> <<>>, data |-> "null"]

\* An error that is not a PipelineAPIError: no type, no status, no details.
JsError(name, message) ==
    [name |-> name, type |-> "undefined", status |-> NoStatus,
     message |-> message, attempts |-> 0, original |-> <<>>, data |-> "null"]

\* isRetryableError(error)
IsRetryableErrorClientErrorsToo(error) ==
    \/ error.name = "TypeError"
    \/ Includes(error.message, "Failed to fetch")
    \/ Includes(error.message, "NetworkError")
    \/ Includes(error.message, "timeout")
    \/ (error.status >= 400 /\ error.status < 600)
IsRetryableError(error) ==
    \/ error.name = "TypeError"
    \/ Includes(error.message, "Failed to fetch")
    \/ Includes(error.message, "NetworkError")
    \/ Includes(error.message, "timeout")
    \/ (error.status >= 500 /\ error.status < 600)

\* ---- JavaScript values handed to submitPipeline ----
\* An element of nodes / edges: null (or another falsy value), a truthy
\* primitive, or an object; a property that is missing or falsy is NoId.
NoId == ""
SubmitIds == {"A", "B"}

NullVal == [kind |-> "null"]
PrimVal == [kind |-> "prim"]
NodeObj(id) == [kind |-> "obj", id |-> id]
EdgeObj(src, tgt) == [kind |-> "obj", source |-> src, target |-> tgt]

NodeVals == {NullVal, PrimVal} \cup {NodeObj(id) : id \in SubmitIds \cup {NoId}}
EdgeVals ==
    {NullVal, PrimVal}
    \cup {EdgeObj(a, b) : a \in SubmitIds \cup {NoId}, b \in SubmitIds \cup {NoId}}

\* The nodes / edges argument: an array of elements, or a value that is no array.
ArrayOf(items) == [isArray |-> TRUE, items |-> items]
NotArray == [isArray |-> FALSE, items |-> <<>>]

\* !v || typeof v !== 'object'
NotAnObject(v) == v.kind = "null" \/ v.kind # "obj"

\* First index from i on at which the node loop throws, 0 if it runs through.
RECURSIVE FirstBadNodeLast(_, _), FirstBadNode(_, _)
FirstBadNodeLast(items, i) ==
    IF i > Len(items) THEN 0
    ELSE LET later == FirstBadNodeLast(items, i + 1) IN
         IF later > 0 THEN later
         ELSE IF NotAnObject(items[i]) THEN i
         ELSE IF items[i].id = NoId THEN i
         ELSE 0
FirstBadNode(items, i) ==
    IF i > Len(items) THEN 0
    ELSE IF NotAnObject(items[i]) THEN i
    ELSE IF items[i].id = NoId THEN i
    ELSE FirstBadNode(items, i + 1)

\* First index from i on at which the edge loop throws, 0 if it runs through.
RECURSIVE FirstBadEdge(_, _)
FirstBadEdge(items, i) ==
    IF i > Len(items) THEN 0
    ELSE IF NotAnObject(items[i]) THEN i
    ELSE IF items[i].source = NoId \/ items[i].target = NoId THEN i
    ELSE FirstBadEdge(items, i + 1)

\* The errors validatePipelineData throws; index is JavaScript's (from 0).
ShapeError(why) ==
    PipelineAPIError(<<"Invalid pipeline data: ", why>>, 400, "VALIDATION_ERROR")
ElementError(what, index, why) ==
    PipelineAPIError(<<"Invalid ", what, " at index ", ToString(index), ": ", why>>,
                     400, "VALIDATION_ERROR")

\* validatePipelineData(nodes, edges): the error it throws, NoError if it returns.
ValidatePipelineDataNodesOnly(nodes, edges) ==
    IF ~nodes.isArray
    THEN ShapeError("nodes must be an array")
    ELSE IF ~edges.isArray
    THEN ShapeError("edges must be an array")
    ELSE LET n == FirstBadNode(nodes.items, 1) IN
         IF n > 0
         THEN ElementError("node", n - 1,
                 IF NotAnObject(nodes.items[n]) THEN "must be an object"
                 ELSE "missing required 'id' field")
         ELSE NoError
ValidatePipelineData(nodes, edges) ==
    IF ~nodes.isArray
    THEN ShapeError("nodes must be an array")
    ELSE IF ~edges.isArray
    THEN ShapeError("edges must be an array")
    ELSE LET n == FirstBadNode(nodes.items, 1)
             e == FirstBadEdge(edges.items, 1)
         IN  IF n > 0
             THEN ElementError("node", n - 1,
                     IF NotAnObject(nodes.items[n]) THEN "must be an object"
                     ELSE "missing required 'id' field")
             ELSE IF e > 0
             THEN ElementError("edge", e - 1,
                     IF NotAnObject(edges.items[e]) THEN "must be an object"
                     ELSE "missing required 'source' or 'target' field")
             ELSE NoError

\* body: JSON.stringify({ nodes, edges })
RequestBodyKnownEdges(nodes, edges) ==
    [nodes |-> nodes.items,
     edges |-> SelectSeq(edges.items, LAMBDA e :
                 /\ \E i \in 1..Len(nodes.items) : nodes.items[i].id = e.source
                 /\ \E i \in 1..Len(nodes.items) : nodes.items[i].id = e.target)]
RequestBody(nodes, edges) == [nodes |-> nodes.items, edges |-> edges.items]

\* ---- what a fetch can come to ----
\* Parsed JSON of a 2xx body: shape names the fields that are present with the
\* type submitPipeline asks for.
AllFields == {"num_nodes", "num_edges", "is_dag"}
NoData == [shape |-> {}, num_nodes |-> 0, num_edges |-> 0, is_dag |-> FALSE]
DataOf(r) ==
    [shape |-> AllFields, num_nodes |-> r.num_nodes, num_edges |-> r.num_edges,
     is_dag |-> r.is_dag]
PartialData == [shape |-> {"num_nodes"}, num_nodes |-> 2, num_edges |-> 0, is_dag |-> FALSE]

\* The backend serving a request body: GraphValidator on the identifiers.
ServerData(body) ==
    DataOf(GraphValidator(
        [i \in 1..Len(body.nodes) |-> body.nodes[i].id],
        [i \in 1..Len(body.edges) |->
            [source |-> body.edges[i].source, target |-> body.edges[i].target]]))

\* Bodies of a non-2xx response: not JSON, or errorData with message and error.
ErrorBodies ==
    {[json |-> FALSE, message |-> <<>>, error |-> ""],
     [json |-> TRUE, message |-> <<>>, error |-> ""],
     [json |-> TRUE, message |-> <<"Graph rejected">>, error |-> "SERVER_ERROR"],
     [json |-> TRUE, message |-> <<"Upstream ", "timeout">>, error |-> ""]}

ErrorStatuses == {400, 500}

\* Outcomes of one fetch: a 2xx response (the backend's answer, an answer that
\* lacks fields, the JSON text null, a body that is no JSON), a non-2xx
\* response, a rejection with a TypeError, an abort by the timeout, a rejection
\* with another error.
FetchOutcomes ==
    {[kind |-> "ok", status |-> 200, body |-> b] : b \in {"result", "partial", "null", "notjson"}}
    \cup {[kind |-> "http", status |-> st, body |-> b] : st \in ErrorStatuses, b \in ErrorBodies}
    \cup {[kind |-> k, status |-> 0, body |-> ""] : k \in {"typeError", "abort", "error"}}

\* makeRequest(url, options): the error it throws for outcome o, NoError if it
\* returns the response.
MakeRequest(o) ==
    CASE o.kind = "ok" -> NoError
      [] o.kind = "http" ->
            \* !response.ok: message and type from the body when it parses
            LET isJson == o.body.json
                message == IF isJson /\ o.body.message # <<>> THEN o.body.message
                           ELSE <<"HTTP error! status: ", ToString(o.status)>>
                type == IF isJson /\ o.body.error # "" THEN o.body.error
                        ELSE "HTTP_ERROR"
            IN  [PipelineAPIError(message, o.status, type)
                    EXCEPT !.data = IF isJson THEN "errorData" ELSE "null"]
      [] o.kind = "abort" ->
            PipelineAPIError(<<"Request ", "timeout", ": The server took too long to respond">>,
                             408, "TIMEOUT_ERROR")
      [] o.kind = "typeError" ->
            PipelineAPIError(<<"Network error: Unable to connect to the server">>,
                             0, "NETWORK_ERROR")
      [] OTHER ->
            PipelineAPIError(<<"Unexpected error: ", "socket hang up">>, 0, "UNKNOWN_ERROR")

\* One pass through the try block of submitPipeline for outcome o of the fetch:
\* [error, data], error = NoError when the pass returns data.
ResponseShapeOkSomeField(data) == data.shape # {}
ResponseShapeOk(data) == AllFields \subseteq data.shape

TryBlock(o, body) ==
    LET e == MakeRequest(o) IN
    IF e # NoError THEN [error |-> e, data |-> NoData]
    ELSE IF o.body = "notjson"
    THEN [error |-> JsError("SyntaxError", <<"Unexpected token < in JSON at position 0">>),
          data |-> NoData]
    ELSE IF o.body = "null"
    THEN \* data is null: reading data.num_nodes throws
         [error |-> JsError("TypeError", <<"Cannot read properties of null">>),
          data |-> NoData]
    ELSE LET data == IF o.body = "result" THEN ServerData(body) ELSE PartialData IN
         IF ~ResponseShapeOk(data)
         THEN [error |-> PipelineAPIError(<<"Invalid response format from server">>,
                                          500, "INVALID_RESPONSE"),
               data |-> NoData]
         ELSE [error |-> NoError, data |-> data]

\* The error thrown after the loop: all retries failed.
MaxRetriesExceededStatusZero(last) ==
    [PipelineAPIError(<<"Pipeline submission failed after ", ToString(MaxRetries), " attempts: ">>
                        \o last.message,
                      0,
                      "MAX_RETRIES_EXCEEDED")
        EXCEPT !.attempts = MaxRetries, !.original = <<last>>]
MaxRetriesExceeded(last) ==
    [PipelineAPIError(<<"Pipeline submission failed after ", ToString(MaxRetries), " attempts: ">>
                        \o last.message,
                      IF last.status = NoStatus THEN 0 ELSE last.status,
                      "MAX_RETRIES_EXCEEDED")
        EXCEPT !.attempts = MaxRetries, !.original = <<last>>]

\* const delay = this.retryDelay * Math.pow(2, attempt - 1)
BackoffDelayDoubledFirst(k) == RetryDelay * (2 ^ k)
BackoffDelay(k) == RetryDelay * (2 ^ (k - 1))

(***************************************************************************)
(* Variable scanner (frontend/src/utils/variableParser.js)                 *)
(*                                                                         *)
(* A JavaScript string is a sequence of one-character strings; positions   *)
(* in results are JavaScript's (from 0).                                   *)
(***************************************************************************)
LowerCaseLetters ==
    <<"a", "b", "c", "d", "e", "f", "g", "h", "i", "j", "k", "l", "m",
      "n", "o", "p", "q", "r", "s", "t", "u", "v", "w", "x", "y", "z">>
UpperCaseLetters ==
    <<"A", "B", "C", "D", "E", "F", "G", "H", "I", "J", "K", "L", "M",
      "N", "O", "P", "Q", "R", "S", "T", "U", "V", "W", "X", "Y", "Z">>
DigitChars == {"0", "1", "2", "3", "4", "5", "6", "7", "8", "9"}

\* \s
SpaceChars == {" ", "\t", "\n", "\r"}
IsSpace(c) == c \in SpaceChars
\* [a-zA-Z_$]
IdentStartChars == Range(LowerCaseLetters) \cup Range(UpperCaseLetters) \cup {"_", "$"}
IsIdentStart(c) == c \in IdentStartChars
\* [a-zA-Z0-9_$]
IdentPartChars == IdentStartChars \cup DigitChars
IsIdentPart(c) == c \in IdentPartChars

\* The string a sequence of characters spells.
RECURSIVE Join(_)
Join(chars) == IF chars = <<>> THEN "" ELSE Head(chars) \o Join(Tail(chars))

\* String.prototype.toLowerCase on the characters of the model.
LowerOfUpper ==
    [c \in Range(UpperCaseLetters) |->
        LowerCaseLetters[CHOOSE i \in DOMAIN UpperCaseLetters : UpperCaseLetters[i] = c]]
LowerChar(c) == IF c \in DOMAIN LowerOfUpper THEN LowerOfUpper[c] ELSE c
ToLowerCase(chars) == [i \in 1..Len(chars) |-> LowerChar(chars[i])]

\* String.prototype.trim
RECURSIVE TrimStart(_), TrimEnd(_)
TrimStart(chars) ==
    IF chars # <<>> /\ IsSpace(Head(chars)) THEN TrimStart(Tail(chars)) ELSE chars
TrimEnd(chars) ==
    IF chars # <<>> /\ IsSpace(chars[Len(chars)])
    THEN TrimEnd(SubSeq(chars, 1, Len(chars) - 1)) ELSE chars
Trim(chars) == TrimEnd(TrimStart(chars))

\* const reservedKeywords = [...]
ReservedKeywordList ==
    <<"abstract", "arguments", "await", "boolean", "break", "byte", "case", "catch",
      "char", "class", "const", "continue", "debugger", "default", "delete", "do",
      "double", "else", "enum", "eval", "export", "extends", "false", "final",
      "finally", "float", "for", "function", "goto", "if", "implements", "import",
      "in", "instanceof", "int", "interface", "let", "long", "native", "new",
      "null", "package", "private", "protected", "public", "return", "short",
      "static", "super", "switch", "synchronized", "this", "throw", "throws",
      "transient", "true", "try", "typeof", "var", "void", "volatile", "while",
      "with", "yield">>
\* reservedKeywords.includes(word)
ReservedKeywords == Range(ReservedKeywordList)

\* validNameRegex = /^[a-zA-Z_$][a-zA-Z0-9_$]*$/ tested on name
ValidNameRegexTest(name) ==
    /\ name # <<>>
    /\ IsIdentStart(name[1])
    /\ \A i \in 2..Len(name) : IsIdentPart(name[i])

\* isValidJavaScriptVariableName(name)
IsValidNameGrammarOnly(name) == ValidNameRegexTest(name)
IsValidJavaScriptVariableName(name) ==
    /\ ValidNameRegexTest(name)
    /\ Join(ToLowerCase(name)) \notin ReservedKeywords

\* First position from i on (1-based) whose character is no whitespace /
\* no identifier character; Len + 1 when there is none.
RECURSIVE SkipSpaces(_, _), SkipIdentPart(_, _)
SkipSpaces(t, i) ==
    IF i <= Len(t) /\ IsSpace(t[i]) THEN SkipSpaces(t, i + 1) ELSE i
SkipIdentPart(t, i) ==
    IF i <= Len(t) /\ IsIdentPart(t[i]) THEN SkipIdentPart(t, i + 1) ELSE i

IsAt(t, i, c) == i <= Len(t) /\ t[i] = c

\* VARIABLE_REGEX = /\{\{\s*([a-zA-Z_$][a-zA-Z0-9_$]*)\s*\}\}/g tried at
\* position p (1-based).  Whitespace, identifier characters and braces are
\* disjoint classes, so the greedy choice of each repetition is the only one
\* that can lead to a match.
MatchAtLenient(t, p) ==
    IF ~(IsAt(t, p, "{") /\ IsAt(t, p + 1, "{")) THEN [ok |-> FALSE]
    ELSE LET nameStart == SkipSpaces(t, p + 2) IN
         IF ~(nameStart <= Len(t) /\ IsIdentStart(t[nameStart])) THEN [ok |-> FALSE]
         ELSE LET nameEnd == SkipIdentPart(t, nameStart)
                  rest == {k \in nameEnd..Len(t) : t[k] \in {"{", "}"}}
                  close == IF rest = {} THEN Len(t) + 1
                           ELSE CHOOSE k \in rest : \A j \in rest : k <= j
              IN  IF ~(IsAt(t, close, "}") /\ IsAt(t, close + 1, "}")) THEN [ok |-> FALSE]
                  ELSE [ok |-> TRUE,
                        index |-> p - 1,
                        group1 |-> SubSeq(t, nameStart, nameEnd - 1),
                        end |-> close + 2]
MatchAt(t, p) ==
    IF ~(IsAt(t, p, "{") /\ IsAt(t, p + 1, "{")) THEN [ok |-> FALSE]
    ELSE LET nameStart == SkipSpaces(t, p + 2) IN
         IF ~(nameStart <= Len(t) /\ IsIdentStart(t[nameStart])) THEN [ok |-> FALSE]
         ELSE LET nameEnd == SkipIdentPart(t, nameStart)
                  close == SkipSpaces(t, nameEnd)
              IN  IF ~(IsAt(t, close, "}") /\ IsAt(t, close + 1, "}")) THEN [ok |-> FALSE]
                  ELSE [ok |-> TRUE,
                        index |-> p - 1,
                        group1 |-> SubSeq(t, nameStart, nameEnd - 1),
                        end |-> close + 2]

\* VARIABLE_REGEX.exec(text) with lastIndex = li: the leftmost match that
\* starts at li or later; found = FALSE for null, which resets lastIndex to 0.
RECURSIVE ExecFrom(_, _)
ExecFrom(t, p) ==
    IF p > Len(t) THEN [found |-> FALSE, index |-> 0, group0 |-> <<>>, group1 |-> <<>>,
                        lastIndex |-> 0]
    ELSE LET m == MatchAt(t, p) IN
         IF m.ok THEN [found |-> TRUE, index |-> m.index,
                       group0 |-> SubSeq(t, p, m.end - 1), group1 |-> m.group1,
                       lastIndex |-> m.end - 1]
         ELSE ExecFrom(t, p + 1)

ExecNotGlobal(t, li) == [ExecFrom(t, 1) EXCEPT !.lastIndex = li]
Exec(t, li) == ExecFrom(t, li + 1)

\* The while loop of parseVariables from lastIndex li with the variables
\* collected so far: [variables, lastIndex] when exec returns null.  A match
\* that leaves lastIndex where it was repeats for ever: hangs is TRUE and the
\* call never returns.
RECURSIVE ParseLoopEndOfName(_, _, _), ParseLoop(_, _, _)
ParseLoopEndOfName(t, li, variables) ==
    LET match == Exec(t, li) IN
    IF ~match.found
    THEN [variables |-> variables, lastIndex |-> match.lastIndex, hangs |-> FALSE]
    ELSE IF match.lastIndex <= li
    THEN [variables |-> variables, lastIndex |-> match.lastIndex, hangs |-> TRUE]
    ELSE LET variableName == Trim(match.group1) IN
         ParseLoopEndOfName(t, match.lastIndex,
            IF IsValidJavaScriptVariableName(variableName)
            THEN Append(variables,
                    [name |-> variableName,
                     startIndex |-> match.index,
                     endIndex |-> match.index + Len(match.group1),
                     fullMatch |-> match.group0])
            ELSE variables)
ParseLoop(t, li, variables) ==
    LET match == Exec(t, li) IN
    IF ~match.found
    THEN [variables |-> variables, lastIndex |-> match.lastIndex, hangs |-> FALSE]
    ELSE IF match.lastIndex <= li
    THEN [variables |-> variables, lastIndex |-> match.lastIndex, hangs |-> TRUE]
    ELSE LET variableName == Trim(match.group1) IN
         ParseLoop(t, match.lastIndex,
            IF IsValidJavaScriptVariableName(variableName)
            THEN Append(variables,
                    [name |-> variableName,
                     startIndex |-> match.index,
                     endIndex |-> match.index + Len(match.group0),
                     fullMatch |-> match.group0])
            ELSE variables)

\* parseVariables(text) called when VARIABLE_REGEX.lastIndex is li: the regex is
\* reset first.
ParseVariablesSingleExec(t, li) ==
    LET match == Exec(t, li)
        variableName == Trim(match.group1)
    IN  [variables |->
            IF match.found /\ IsValidJavaScriptVariableName(variableName)
            THEN <<[name |-> variableName,
                    startIndex |-> match.index,
                    endIndex |-> match.index + Len(match.group0),
                    fullMatch |-> match.group0]>>
            ELSE <<>>,
         lastIndex |-> match.lastIndex,
         hangs |-> FALSE]
ParseVariablesFrom(t, li) == ParseLoop(t, 0, <<>>)

\* [...new Set(list)]: first occurrences in order.
RECURSIVE UniqueFrom(_, _, _)
UniqueFrom(list, i, acc) ==
    IF i > Len(list) THEN acc
    ELSE IF Contains(acc, list[i]) THEN UniqueFrom(list, i + 1, acc)
    ELSE UniqueFrom(list, i + 1, Append(acc, list[i]))

UniqueKeepAll(list) == list
Unique(list) == UniqueFrom(list, 1, <<>>)

\* extractVariableNames(text), given what parseVariables returned
NamesOf(variables) == Unique([i \in 1..Len(variables) |-> variables[i].name])

(***************************************************************************)
(* SpecGraph: one graph is submitted; the validator handles the request,   *)
(* possibly several times, with requests for other graphs in between.      *)
(***************************************************************************)
\* All edge lists of up to MaxEdges edges, and all walks (each edge starts where
\* the previous one ends) of up to MaxWalk edges.
MaxWalk == 3

IsWalk(e) == \A i \in 1..(Len(e) - 1) : e[i + 1].source = e[i].target

EdgeLists ==
    SeqsUpTo(EdgeRecs, MaxEdges)
    \cup {e \in [1..MaxWalk -> EdgeRecs] : IsWalk(e)}

NodeLists == SeqsUpTo(Ids, MaxNodes)

\* A request for another graph that the validator serves in between.
OtherNodes == <<"A", "B", "C">>
OtherEdges == <<[source |-> "C", target |-> "B"], [source |-> "A", target |-> "B"],
                [source |-> "B", target |-> "A"]>>

GraphRest ==
    /\ gNodes = <<>> /\ gEdges = <<>> /\ gColor = <<>>
    /\ gResult = None /\ gFirst = None /\ gCalls = 0 /\ gBetween = FALSE

NoOutcome == [tag |-> "none", data |-> NoData, error |-> NoError]

SubmitRest ==
    /\ inNodes = ArrayOf(<<>>) /\ inEdges = ArrayOf(<<>>) /\ pc = "idle" /\ attempt = 0
    /\ requests = <<>> /\ sleeps = <<>> /\ lastError = NoError /\ outcome = NoOutcome

ScanRest ==
    /\ text = <<>> /\ lastIndex = 0 /\ called = "none" /\ result = <<>>

SeqRest == sFirst = <<>> /\ sCalls = 0 /\ sBetween = FALSE

TextRest == currText = <<>> /\ detectedVariables = <<>> /\ handles = <<>>

ButtonRest ==
    /\ isLoading = FALSE /\ errorState = NoError /\ successData = NoData
    /\ retryCount = 0 /\ inFlight = 0 /\ healthChecks = 0

NodeRest == cfgHandles = <<>> /\ rendered = <<>> /\ renderedBy = "none"

FrontRest == SeqRest /\ TextRest /\ ButtonRest /\ NodeRest

InitGraph ==
    /\ gNodes \in NodeLists
    /\ gEdges \in EdgeLists
    /\ gColor = <<>> /\ gResult = None /\ gFirst = None /\ gCalls = 0
    /\ gBetween = FALSE
    /\ SubmitRest /\ ScanRest /\ FrontRest

\* The validator handles the request (gNodes, gEdges).
Validate ==
    /\ LET t == Traverse(gNodes, gEdges, gColor)
           r == ResponseOf(gNodes, gEdges, t.cyc)
       IN  /\ gResult' = r
           /\ gColor' = t.color
           /\ gFirst' = IF gCalls = 0 THEN r ELSE gFirst
    /\ gCalls' = IF gCalls = 0 THEN 1 ELSE 2
    /\ UNCHANGED <<gNodes, gEdges, gBetween, submitVars, scanVars, frontVars>>

\* The validator handles a request for another graph; only the working memory
\* it leaves behind is kept.
ValidateOther ==
    /\ gCalls >= 1
    /\ gColor' = Traverse(OtherNodes, OtherEdges, gColor).color
    /\ gBetween' = TRUE
    /\ UNCHANGED <<gNodes, gEdges, gResult, gFirst, gCalls, submitVars, scanVars, frontVars>>

NextGraph == Validate \/ ValidateOther

SpecGraph == InitGraph /\ [][NextGraph]_vars


(***************************************************************************)
(* SpecSubmit: one call of pipelineAPI.submitPipeline(nodes, edges).       *)
(***************************************************************************)
\* Bounds of the arrays handed to submitPipeline.
MaxInNodes == 2
MaxInEdges == 2

NodeArgs == {NotArray} \cup {ArrayOf(items) : items \in SeqsUpTo(NodeVals, MaxInNodes)}
EdgeArgs == {NotArray} \cup {ArrayOf(items) : items \in SeqsUpTo(EdgeVals, MaxInEdges)}

InitSubmit ==
    /\ inNodes \in NodeArgs
    /\ inEdges \in EdgeArgs
    /\ pc = "idle" /\ attempt = 0 /\ requests = <<>> /\ sleeps = <<>>
    /\ lastError = NoError /\ outcome = NoOutcome
    /\ GraphRest /\ ScanRest /\ FrontRest

\* submitPipeline is called: validatePipelineData, then the first pass of the
\* loop up to the fetch inside makeRequest.
SubmitPipeline ==
    /\ pc = "idle"
    /\ LET e == ValidatePipelineData(inNodes, inEdges) IN
       IF e # NoError
       THEN /\ pc' = "rejected"
            /\ outcome' = [tag |-> "error", data |-> NoData, error |-> e]
            /\ UNCHANGED <<attempt, requests>>
       ELSE /\ attempt' = 1
            /\ requests' = <<RequestBody(inNodes, inEdges)>>
            /\ pc' = "fetching"
            /\ UNCHANGED outcome
    /\ UNCHANGED <<inNodes, inEdges, sleeps, lastError, graphVars, scanVars, frontVars>>

\* The fetch of the current attempt settles with outcome o: the rest of the try
\* block, and the catch block when it throws.
FetchSettlesLateBreak(o) ==
    /\ pc = "fetching"
    /\ LET r == TryBlock(o, requests[Len(requests)]) IN
       IF r.error = NoError
       THEN /\ pc' = "resolved"
            /\ outcome' = [tag |-> "data", data |-> r.data, error |-> NoError]
            /\ UNCHANGED <<lastError, sleeps>>
       ELSE /\ lastError' = r.error
            /\ IF ~IsRetryableError(r.error)
               THEN /\ pc' = "rejected"
                    /\ outcome' = [tag |-> "error", data |-> NoData, error |-> r.error]
                    /\ UNCHANGED sleeps
               ELSE IF attempt = MaxRetries + 1
               THEN /\ pc' = "rejected"
                    /\ outcome' = [tag |-> "error", data |-> NoData,
                                   error |-> MaxRetriesExceeded(r.error)]
                    /\ UNCHANGED sleeps
               ELSE /\ pc' = "sleeping"
                    /\ sleeps' = Append(sleeps, BackoffDelay(attempt))
                    /\ UNCHANGED outcome
    /\ UNCHANGED <<inNodes, inEdges, attempt, requests, graphVars, scanVars, frontVars>>
FetchSettles(o) ==
    /\ pc = "fetching"
    /\ LET r == TryBlock(o, requests[Len(requests)]) IN
       IF r.error = NoError
       THEN /\ pc' = "resolved"
            /\ outcome' = [tag |-> "data", data |-> r.data, error |-> NoError]
            /\ UNCHANGED <<lastError, sleeps>>
       ELSE /\ lastError' = r.error
            /\ IF ~IsRetryableError(r.error)
               THEN /\ pc' = "rejected"
                    /\ outcome' = [tag |-> "error", data |-> NoData, error |-> r.error]
                    /\ UNCHANGED sleeps
               ELSE IF attempt = MaxRetries
               THEN /\ pc' = "rejected"
                    /\ outcome' = [tag |-> "error", data |-> NoData,
                                   error |-> MaxRetriesExceeded(r.error)]
                    /\ UNCHANGED sleeps
               ELSE /\ pc' = "sleeping"
                    /\ sleeps' = Append(sleeps, BackoffDelay(attempt))
                    /\ UNCHANGED outcome
    /\ UNCHANGED <<inNodes, inEdges, attempt, requests, graphVars, scanVars, frontVars>>

\* The backoff sleep ends: attempt++ and the next fetch is issued.
SleepDone ==
    /\ pc = "sleeping"
    /\ attempt' = attempt + 1
    /\ requests' = Append(requests, RequestBody(inNodes, inEdges))
    /\ pc' = "fetching"
    /\ UNCHANGED <<inNodes, inEdges, sleeps, lastError, outcome, graphVars, scanVars, frontVars>>

NextSubmit ==
    \/ SubmitPipeline
    \/ \E o \in FetchOutcomes : FetchSettles(o)
    \/ SleepDone

SpecSubmit == InitSubmit /\ [][NextSubmit]_vars

\* The same call when every request settles (each fetch is aborted after the
\* timeout at the latest) and every sleep ends.
SpecSubmitFair ==
    /\ InitSubmit
    /\ [][NextSubmit]_vars
    /\ WF_vars(SubmitPipeline)
    /\ WF_vars(\E o \in FetchOutcomes : FetchSettles(o))
    /\ WF_vars(SleepDone)


(***************************************************************************)
(* SpecScan: the scanner functions are applied to a text.                  *)
(***************************************************************************)
\* Texts are made of up to MaxPieces pieces.
MaxPieces == 3

TextPieces ==
    {<<"{", "{", "a", "}", "}">>,                      \* {{a}}
     <<"{", "{", " ", "b", " ", "}", "}">>,            \* {{ b }}
     <<"{", "{", "$", "_", "1", "}", "}">>,            \* {{$_1}}
     <<"{", "{", "I", "f", "}", "}">>,                 \* {{If}}
     <<"{", "{", " ", "f", "u", "n", "c", "t", "i", "o", "n", " ", "}", "}">>,
     <<"{", "{", "1", "a", "}", "}">>,                 \* {{1a}}
     <<"{", "{", "a", "-", "b", "}", "}">>,            \* {{a-b}}
     <<"{", "{", "a", " ", "b", "}", "}">>,            \* {{a b}}
     <<"{", "{">>, <<"}", "}">>, <<"{">>, <<"}">>, <<" ">>, <<"a">>}

RECURSIVE Flatten(_)
Flatten(pieces) == IF pieces = <<>> THEN <<>> ELSE Head(pieces) \o Flatten(Tail(pieces))

Texts == {Flatten(ps) : ps \in SeqsUpTo(TextPieces, MaxPieces)}

InitScan ==
    /\ text \in Texts
    /\ lastIndex = 0 /\ called = "none" /\ result = <<>>
    /\ GraphRest /\ SubmitRest /\ FrontRest

\* parseVariables(text)
ParseVariables ==
    /\ called # "hung"
    /\ LET r == ParseVariablesFrom(text, lastIndex) IN
        /\ result' = IF r.hangs THEN <<>> ELSE r.variables
        /\ called' = IF r.hangs THEN "hung" ELSE "parseVariables"
        /\ lastIndex' = r.lastIndex
    /\ UNCHANGED <<text, graphVars, submitVars, frontVars>>

\* extractVariableNames(text)
ExtractVariableNames ==
    /\ called # "hung"
    /\ LET r == ParseVariablesFrom(text, lastIndex) IN
        /\ result' = IF r.hangs THEN <<>> ELSE NamesOf(r.variables)
        /\ called' = IF r.hangs THEN "hung" ELSE "extractVariableNames"
        /\ lastIndex' = r.lastIndex
    /\ UNCHANGED <<text, graphVars, submitVars, frontVars>>

\* hasVariables(text)
HasVariables ==
    /\ called # "hung"
    /\ LET r == ParseVariablesFrom(text, lastIndex) IN
        /\ result' = IF r.hangs THEN <<>> ELSE (Len(NamesOf(r.variables)) > 0)
        /\ called' = IF r.hangs THEN "hung" ELSE "hasVariables"
        /\ lastIndex' = r.lastIndex
    /\ UNCHANGED <<text, graphVars, submitVars, frontVars>>

NextScan == ParseVariables \/ ExtractVariableNames \/ HasVariables

SpecScan == InitScan /\ [][NextScan]_vars

(***************************************************************************)
(* SpecScanSeq: parseVariables(text) is called again and again, with       *)
(* scanner calls on other texts in between; all share VARIABLE_REGEX.      *)
(***************************************************************************)
\* The texts are made of up to MaxSeqPieces pieces.
MaxSeqPieces == 2

SeqPieces ==
    {<<"{", "{", "a", "}", "}">>,                      \* {{a}}
     <<"{", "{", " ", "b", " ", "}", "}">>,            \* {{ b }}
     <<"{", "{", "I", "f", "}", "}">>,                 \* {{If}}
     <<"{", "{", "1", "a", "}", "}">>,                 \* {{1a}}
     <<"{", "{">>, <<"a">>}

SeqTexts == {Flatten(ps) : ps \in SeqsUpTo(SeqPieces, MaxSeqPieces)}

InitScanSeq ==
    /\ text \in SeqTexts
    /\ lastIndex = 0 /\ called = "none" /\ result = <<>>
    /\ SeqRest /\ TextRest /\ ButtonRest /\ NodeRest
    /\ GraphRest /\ SubmitRest

\* parseVariables(text); the first call is made before any other scan.
ParseWatched ==
    /\ called # "hung"
    /\ LET r == ParseVariablesFrom(text, lastIndex) IN
        /\ result' = IF r.hangs THEN <<>> ELSE r.variables
        /\ called' = IF r.hangs THEN "hung" ELSE "parseVariables"
        /\ lastIndex' = r.lastIndex
        /\ sFirst' = IF sCalls = 0 THEN result' ELSE sFirst
    /\ sCalls' = IF sCalls = 0 THEN 1 ELSE 2
    /\ UNCHANGED <<text, sBetween, textVars, buttonVars, nodeVars, graphVars, submitVars>>

\* parseVariables, extractVariableNames or hasVariables is called on the text t
\* by another caller: all three run the loop of parseVariables on t.
ScanOther(t) ==
    /\ called # "hung"
    /\ sCalls >= 1
    /\ LET r == ParseVariablesFrom(t, lastIndex) IN
        /\ called' = IF r.hangs THEN "hung" ELSE called
        /\ lastIndex' = r.lastIndex
    /\ sBetween' = TRUE
    /\ UNCHANGED <<text, result, sFirst, sCalls, textVars, buttonVars, nodeVars, graphVars, submitVars>>

NextScanSeq ==
    \/ ParseWatched
    \/ \E t \in SeqTexts : ScanOther(t)

SpecScanSeq == InitScanSeq /\ [][NextScanSeq]_vars

(***************************************************************************)
(* SpecTextNode: a text node (frontend/src/nodes/textNode.js) is mounted   *)
(* and its text is edited.                                                 *)
(***************************************************************************)
\* Longest text an edit may produce by appending.
MaxTextLen == 10

\* data?.text || '{{input}}'
DefaultText == <<"{", "{", "i", "n", "p", "u", "t", "}", "}">>
InitialText(dataText) == IF dataText = <<>> THEN DefaultText ELSE dataText

\* data.text of the node when it is created: absent or empty, or a text.
DataTexts == {<<>>, <<"a">>, <<"{", "{", "a", "}", "}">>}

\* What the user types or pastes at the end of the text.
EditPieces ==
    {<<"{", "{", "a", "}", "}">>, <<"{", "{", "b", "}", "}">>,
     <<"{", "{", "1", "}", "}">>, <<"a">>}

\* e.target.value of a change event on the textarea: a piece appended, the
\* last character deleted, or everything deleted.
Edits(t) ==
    {t \o piece : piece \in {q \in EditPieces : Len(t) + Len(q) <= MaxTextLen}}
    \cup (IF t = <<>> THEN {} ELSE {SubSeq(t, 1, Len(t) - 1), <<>>})

\* CommonHandles.singleSource(id): createHandle(`${id}-output`, 'source', RIGHT)
SingleSource ==
    <<[id |-> "output", type |-> "source", position |-> "right"]>>

\* handles: ({ id }) => CommonHandles.singleSource(id), rendered by BaseNode
TextNodeHandles(detected) == SingleSource

\* updateDetectedVariables(text): extractVariableNames(text)
DetectVariables(t) == NamesOf(ParseVariablesFrom(t, 0).variables)

\* The node after its first render and the effect that follows it.
InitTextNode ==
    /\ \E dataText \in DataTexts : currText = InitialText(dataText)
    /\ detectedVariables = DetectVariables(currText)
    /\ handles = TextNodeHandles(detectedVariables)
    /\ SeqRest /\ ButtonRest /\ NodeRest /\ ScanRest /\ GraphRest /\ SubmitRest

\* handleTextChange(e), the render and the effect that follow it.
HandleTextChange(newText) ==
    /\ currText' = newText
    /\ detectedVariables' = DetectVariables(newText)
    /\ handles' = TextNodeHandles(detectedVariables')
    /\ UNCHANGED <<seqVars, buttonVars, nodeVars, scanVars, graphVars, submitVars>>

NextTextNode == \E newText \in Edits(currText) : HandleTextChange(newText)

SpecTextNode == InitTextNode /\ [][NextTextNode]_vars

(***************************************************************************)
(* SpecButton: the SubmitButton component (frontend/src/draggableNode.js)  *)
(* under clicks and completions of the calls it started.                   *)
(***************************************************************************)
\* Caps on the counters of the component.
MaxRetryCount == 2
MaxInFlight == 2
MaxHealthChecks == 2

\* What pipelineAPI.submitPipeline can reject with: a PipelineAPIError of each
\* type and status getErrorDetails tells apart, or an error of another class.
UiErrorKinds ==
    {<<"NETWORK_ERROR", 0>>, <<"TIMEOUT_ERROR", 408>>, <<"VALIDATION_ERROR", 400>>,
     <<"HTTP_ERROR", 400>>, <<"HTTP_ERROR", 404>>, <<"HTTP_ERROR", 500>>,
     <<"HTTP_ERROR", 503>>, <<"SERVER_ERROR", 500>>,
     <<"MAX_RETRIES_EXCEEDED", 500>>, <<"INVALID_RESPONSE", 500>>,
     <<"UNKNOWN_ERROR", 0>>}

UiErrors ==
    {PipelineAPIError(<<"submission failed">>, k[2], k[1]) : k \in UiErrorKinds}
    \cup {JsError("Error", <<"boom">>)}

\* What pipelineAPI.submitPipeline can resolve with.
UiResponses ==
    {DataOf([num_nodes |-> 2, num_edges |-> 1, is_dag |-> TRUE]),
     DataOf([num_nodes |-> 2, num_edges |-> 2, is_dag |-> FALSE])}

\* getErrorDetails(error): title, canRetry and actions.
GetErrorDetailsRetryOnClientError(e) ==
    IF e.name # "PipelineAPIError"
    THEN [title |-> "Unexpected Error", canRetry |-> FALSE, actions |-> <<"Close">>]
    ELSE CASE e.type = "NETWORK_ERROR" ->
                [title |-> "Connection Failed", canRetry |-> TRUE,
                 actions |-> <<"Check Server Status", "Retry", "Close">>]
           [] e.type = "TIMEOUT_ERROR" ->
                [title |-> "Request Timeout", canRetry |-> TRUE,
                 actions |-> <<"Retry", "Close">>]
           [] e.type = "VALIDATION_ERROR" ->
                [title |-> "Invalid Pipeline Data", canRetry |-> FALSE,
                 actions |-> <<"Close">>]
           [] e.type = "HTTP_ERROR" ->
                IF e.status = 400
                THEN [title |-> "Invalid Request", canRetry |-> FALSE,
                      actions |-> <<"Close">>]
                ELSE IF e.status >= 500
                THEN [title |-> "Server Error", canRetry |-> TRUE,
                      actions |-> <<"Retry", "Close">>]
                ELSE [title |-> "HTTP Error " \o ToString(e.status),
                      canRetry |-> e.status >= 500,
                      actions |-> <<"Retry", "Close">>]
           [] e.type = "MAX_RETRIES_EXCEEDED" ->
                [title |-> "Multiple Attempts Failed", canRetry |-> TRUE,
                 actions |-> <<"Retry", "Close">>]
           [] e.type = "INVALID_RESPONSE" ->
                [title |-> "Invalid Server Response", canRetry |-> TRUE,
                 actions |-> <<"Retry", "Close">>]
           [] OTHER ->
                [title |-> "Unknown Error", canRetry |-> TRUE,
                 actions |-> <<"Retry", "Close">>]
GetErrorDetails(e) ==
    IF e.name # "PipelineAPIError"
    THEN [title |-> "Unexpected Error", canRetry |-> FALSE, actions |-> <<"Close">>]
    ELSE CASE e.type = "NETWORK_ERROR" ->
                [title |-> "Connection Failed", canRetry |-> TRUE,
                 actions |-> <<"Check Server Status", "Retry", "Close">>]
           [] e.type = "TIMEOUT_ERROR" ->
                [title |-> "Request Timeout", canRetry |-> TRUE,
                 actions |-> <<"Retry", "Close">>]
           [] e.type = "VALIDATION_ERROR" ->
                [title |-> "Invalid Pipeline Data", canRetry |-> FALSE,
                 actions |-> <<"Close">>]
           [] e.type = "HTTP_ERROR" ->
                IF e.status = 400
                THEN [title |-> "Invalid Request", canRetry |-> FALSE,
                      actions |-> <<"Close">>]
                ELSE IF e.status >= 500
                THEN [title |-> "Server Error", canRetry |-> TRUE,
                      actions |-> <<"Retry", "Close">>]
                ELSE [title |-> "HTTP Error " \o ToString(e.status),
                      canRetry |-> e.status >= 500,
                      actions |-> IF e.status >= 500 THEN <<"Retry", "Close">>
                                  ELSE <<"Close">>]
           [] e.type = "MAX_RETRIES_EXCEEDED" ->
                [title |-> "Multiple Attempts Failed", canRetry |-> TRUE,
                 actions |-> <<"Retry", "Close">>]
           [] e.type = "INVALID_RESPONSE" ->
                [title |-> "Invalid Server Response", canRetry |-> TRUE,
                 actions |-> <<"Retry", "Close">>]
           [] OTHER ->
                [title |-> "Unknown Error", canRetry |-> TRUE,
                 actions |-> <<"Retry", "Close">>]

\* What the component renders.
ButtonDisabled == isLoading
ButtonLabel == IF isLoading THEN "Submitting..." ELSE "Submit Pipeline"
ErrorModalShown == errorState # NoError
ErrorActions == IF ErrorModalShown THEN GetErrorDetails(errorState).actions ELSE <<>>

InitButton ==
    /\ isLoading = FALSE /\ errorState = NoError /\ successData = NoData
    /\ retryCount = 0 /\ inFlight = 0 /\ healthChecks = 0
    /\ SeqRest /\ TextRest /\ NodeRest /\ ScanRest /\ GraphRest /\ SubmitRest

\* A click on the submit button: handleSubmit up to the await.  A disabled
\* button dispatches no click.
ClickSubmit ==
    /\ ~ButtonDisabled
    /\ ~isLoading
    /\ inFlight < MaxInFlight
    /\ isLoading' = TRUE
    /\ inFlight' = inFlight + 1
    /\ UNCHANGED <<errorState, successData, retryCount, healthChecks>>
    /\ UNCHANGED <<seqVars, textVars, nodeVars, scanVars, graphVars, submitVars>>

\* A pending submitPipeline call resolves: the rest of the try block and finally.
SubmitResolves(data) ==
    /\ inFlight > 0
    /\ inFlight' = inFlight - 1
    /\ retryCount' = 0
    /\ successData' = data
    /\ isLoading' = FALSE
    /\ UNCHANGED <<errorState, healthChecks>>
    /\ UNCHANGED <<seqVars, textVars, nodeVars, scanVars, graphVars, submitVars>>

\* A pending submitPipeline call rejects: the catch block and finally.
SubmitRejectsNoFinally(e) ==
    /\ inFlight > 0
    /\ inFlight' = inFlight - 1
    /\ errorState' = e
    /\ UNCHANGED <<isLoading, successData, retryCount, healthChecks>>
    /\ UNCHANGED <<seqVars, textVars, nodeVars, scanVars, graphVars, submitVars>>
SubmitRejects(e) ==
    /\ inFlight > 0
    /\ inFlight' = inFlight - 1
    /\ errorState' = e
    /\ isLoading' = FALSE
    /\ UNCHANGED <<successData, retryCount, healthChecks>>
    /\ UNCHANGED <<seqVars, textVars, nodeVars, scanVars, graphVars, submitVars>>

\* A click on a button of the error modal: handleErrorAction(action).
HandleErrorAction(action) ==
    /\ ErrorModalShown
    /\ Contains(ErrorActions, action)
    /\ errorState' = NoError
    /\ CASE action = "Retry" ->
            \* handleRetry: setRetryCount, then handleSubmit
            /\ retryCount < MaxRetryCount
            /\ retryCount' = retryCount + 1
            /\ IF isLoading
               THEN UNCHANGED <<isLoading, inFlight>>
               ELSE /\ inFlight < MaxInFlight
                    /\ isLoading' = TRUE
                    /\ inFlight' = inFlight + 1
            /\ UNCHANGED healthChecks
         [] action = "Check Server Status" ->
            \* handleHealthCheck up to the await
            /\ healthChecks < MaxHealthChecks
            /\ isLoading' = TRUE
            /\ healthChecks' = healthChecks + 1
            /\ UNCHANGED <<retryCount, inFlight>>
         [] OTHER ->
            UNCHANGED <<isLoading, retryCount, inFlight, healthChecks>>
    /\ UNCHANGED successData
    /\ UNCHANGED <<seqVars, textVars, nodeVars, scanVars, graphVars, submitVars>>

\* A pending healthCheck call settles: the alert and finally.
HealthCheckSettles ==
    /\ healthChecks > 0
    /\ healthChecks' = healthChecks - 1
    /\ isLoading' = FALSE
    /\ UNCHANGED <<errorState, successData, retryCount, inFlight>>
    /\ UNCHANGED <<seqVars, textVars, nodeVars, scanVars, graphVars, submitVars>>

\* A click on the success modal: setSuccessData(null).
CloseSuccess ==
    /\ successData # NoData
    /\ successData' = NoData
    /\ UNCHANGED <<isLoading, errorState, retryCount, inFlight, healthChecks>>
    /\ UNCHANGED <<seqVars, textVars, nodeVars, scanVars, graphVars, submitVars>>

SubmitSettles ==
    \/ \E data \in UiResponses : SubmitResolves(data)
    \/ \E e \in UiErrors : SubmitRejects(e)

NextButton ==
    \/ ClickSubmit
    \/ SubmitSettles
    \/ \E action \in {"Retry", "Check Server Status", "Close"} : HandleErrorAction(action)
    \/ HealthCheckSettles
    \/ CloseSuccess

\* Every call the component started settles: each fetch is aborted after the
\* timeout and the retry loop is bounded.
SpecButton ==
    /\ InitButton
    /\ [][NextButton]_vars
    /\ WF_vars(SubmitSettles)
    /\ WF_vars(HealthCheckSettles)

(***************************************************************************)
(* SpecBaseNode: BaseNode.renderHandles, in the two copies of BaseNode.js  *)
(* the repository holds: frontend/src/components/BaseNode.js, which maps   *)
(* over config.handles, and the copy that groups the handles by position.  *)
(***************************************************************************)
\* Bound of config.handles.
MaxHandles == 3

\* The id prop of the node.
NodeId == "n1"

\* Handle configurations: id (NoId when missing or empty), type, position.
HandleIds == {NoId, "h"}
HandleTypes == {"source", "target"}
HandlePositions == {"left", "right", "top"}
HandleConfigs == [id : HandleIds, type : HandleTypes, position : HandlePositions]
HandleLists == SeqsUpTo(HandleConfigs, MaxHandles)

\* A rendered StyledHandle: its id, type and position props.
StyledHandle(handleId, type, position) ==
    [id |-> handleId, type |-> type, position |-> position]

\* renderHandles of frontend/src/components/BaseNode.js: handles.map with
\* id = handleId || `${id}-${type}-${index}`.
RenderHandles(id, hs) ==
    [i \in 1..Len(hs) |->
        StyledHandle(IF hs[i].id # NoId THEN hs[i].id
                     ELSE id \o "-" \o hs[i].type \o "-" \o ToString(i - 1),
                     hs[i].type, hs[i].position)]

\* The keys of handlesByPosition in the order for...in visits them: the
\* positions in the order of their first handle.
RECURSIVE PositionKeys(_, _, _)
PositionKeys(hs, i, acc) ==
    IF i > Len(hs) THEN acc
    ELSE PositionKeys(hs, i + 1,
            IF Contains(acc, hs[i].position) THEN acc ELSE Append(acc, hs[i].position))

\* handlesByPosition[position]
HandlesAt(hs, position) == SelectSeq(hs, LAMBDA h : h.position = position)

\* group.forEach of the grouping copy: id = handleId ||
\* `${id}-${type}-${position}-${index}`, index counting within the group.
RenderGroup(id, group) ==
    [i \in 1..Len(group) |->
        StyledHandle(IF group[i].id # NoId THEN group[i].id
                     ELSE id \o "-" \o group[i].type \o "-" \o group[i].position
                             \o "-" \o ToString(i - 1),
                     group[i].type, group[i].position)]

\* The loop over the groups, pushing onto renderedHandles.
RECURSIVE RenderGroups(_, _, _, _, _)
RenderGroups(id, hs, keys, k, renderedHandles) ==
    IF k > Len(keys) THEN renderedHandles
    ELSE RenderGroups(id, hs, keys, k + 1,
            renderedHandles \o RenderGroup(id, HandlesAt(hs, keys[k])))

\* renderHandles of the grouping copy.
RenderHandlesGrouped(id, hs) ==
    RenderGroups(id, hs, PositionKeys(hs, 1, <<>>), 1, <<>>)

InitBaseNode ==
    /\ cfgHandles \in HandleLists
    /\ rendered = <<>>
    /\ renderedBy = "none"
    /\ SeqRest /\ TextRest /\ ButtonRest /\ ScanRest /\ GraphRest /\ SubmitRest

\* frontend/src/components/BaseNode.js renders the node.
RenderBaseNode ==
    /\ rendered' = RenderHandles(NodeId, cfgHandles)
    /\ renderedBy' = "BaseNode"
    /\ UNCHANGED cfgHandles
    /\ UNCHANGED <<seqVars, textVars, buttonVars, scanVars, graphVars, submitVars>>

\* The grouping copy of BaseNode renders the node.
RenderBaseNodeGrouped ==
    /\ rendered' = RenderHandlesGrouped(NodeId, cfgHandles)
    /\ renderedBy' = "BaseNodeGrouped"
    /\ UNCHANGED cfgHandles
    /\ UNCHANGED <<seqVars, textVars, buttonVars, scanVars, graphVars, submitVars>>

NextBaseNode == RenderBaseNode \/ RenderBaseNodeGrouped

SpecBaseNode == InitBaseNode /\ [][NextBaseNode]_vars


(***************************************************************************)
(* Properties of GraphValidator (checked under SpecGraph).                 *)
(***************************************************************************)
\* The directed graph of an edge list, and its transitive closure.
EdgePairs(edges) == {<<edges[i].source, edges[i].target>> : i \in 1..Len(edges)}

\* R extended by the pairs two steps of R connect; k times over.
RECURSIVE ClosureSteps(_, _)
ClosureSteps(R, k) ==
    IF k = 0 THEN R
    ELSE ClosureSteps(
            R \cup {p \in Ids \X Ids :
                        \E b \in Ids : <<p[1], b>> \in R /\ <<b, p[2]>> \in R},
            k - 1)

HasDirectedCycle(edges) ==
    \E x \in Ids : <<x, x>> \in ClosureSteps(EdgePairs(edges), Cardinality(Ids))

HasSelfLoop(edges) == \E i \in 1..Len(edges) : edges[i].source = edges[i].target

Edge(s, t) == [source |-> s, target |-> t]

\* C1: is_dag is true if and only if the directed graph formed by the nodes
\* and edges of the request contains no directed cycle.
ThmC1_IsDagIffAcyclic ==
    gCalls >= 1 => (gResult.is_dag <=> ~HasDirectedCycle(gEdges))

\* C1 witness: nodes [A,B,C] with edges (A,B),(B,C),(C,A) validated, is_dag false.
WitC1_ThreeCycle ==
    /\ gCalls >= 1
    /\ gNodes = <<"A", "B", "C">>
    /\ gEdges = <<Edge("A", "B"), Edge("B", "C"), Edge("C", "A")>>
    /\ gResult = [num_nodes |-> 3, num_edges |-> 3, is_dag |-> FALSE]

\* C2: num_nodes is the number of distinct node identifiers supplied and
\* num_edges is the length of the edge sequence supplied, edges that reference
\* unknown nodes included, whether or not the graph is acyclic.
ThmC2_Counts ==
    gCalls >= 1 =>
        /\ gResult.num_nodes = Cardinality(Range(gNodes))
        /\ gResult.num_edges = Len(gEdges)

\* C2 witness: a validated cyclic graph with a repeated node identifier and an
\* edge to a node that was not supplied.
WitC2_DuplicateAndUnknown ==
    /\ gCalls >= 1
    /\ Len(gNodes) > Cardinality(Range(gNodes))
    /\ \E i \in 1..Len(gEdges) : gEdges[i].target \notin Range(gNodes)
    /\ ~gResult.is_dag
    /\ gResult.num_edges = 2

\* C3: a graph that contains a self-loop is not a DAG, whatever else it contains.
ThmC3_SelfLoop ==
    (gCalls >= 1 /\ HasSelfLoop(gEdges)) => ~gResult.is_dag

\* C3 witness: a validated graph whose only cycle is a self-loop that is not the
\* first edge and not on the first node.
WitC3_SelfLoopAmongOthers ==
    /\ gCalls >= 1
    /\ gNodes = <<"A", "B", "C">>
    /\ gEdges = <<Edge("A", "B"), Edge("C", "C")>>
    /\ ~gResult.is_dag

\* C4: a graph with zero edges is a DAG for any number of nodes; the empty
\* graph yields num_nodes 0, num_edges 0, is_dag true.
ThmC4_NoEdges ==
    (gCalls >= 1 /\ gEdges = <<>>) =>
        /\ gResult.is_dag
        /\ (gNodes = <<>> =>
                gResult = [num_nodes |-> 0, num_edges |-> 0, is_dag |-> TRUE])

\* C4 witness: three isolated nodes validated.
WitC4_IsolatedNodes ==
    /\ gCalls >= 1
    /\ gEdges = <<>>
    /\ Cardinality(Range(gNodes)) = 3
    /\ gResult.is_dag

\* C6: validating the same graph again, with a validation of another graph in
\* between or not, yields the result of the first validation.
ThmC6_Idempotent ==
    gCalls >= 1 => gResult = gFirst

\* C6 witness: a cyclic graph validated more than once with another request
\* served in between.
WitC6_Revalidated ==
    /\ gCalls = 2
    /\ gBetween
    /\ ~gResult.is_dag
    /\ gNodes # <<>>

(***************************************************************************)
(* Properties of PipelineAPI (checked under SpecSubmit).                   *)
(***************************************************************************)
\* The input is well-formed: two arrays, every node an object with an id, every
\* edge an object with a source and a target.
WellFormed(nodes, edges) ==
    /\ nodes.isArray
    /\ edges.isArray
    /\ \A i \in 1..Len(nodes.items) :
            nodes.items[i].kind = "obj" /\ nodes.items[i].id # NoId
    /\ \A i \in 1..Len(edges.items) :
            /\ edges.items[i].kind = "obj"
            /\ edges.items[i].source # NoId
            /\ edges.items[i].target # NoId

NodeIdsOf(nodes) == {nodes.items[i].id : i \in 1..Len(nodes.items)}

\* Some edge has an endpoint that is not the id of a supplied node.
HasUnknownEndpoint(nodes, edges) ==
    \E i \in 1..Len(edges.items) :
        \/ edges.items[i].source \notin NodeIdsOf(nodes)
        \/ edges.items[i].target \notin NodeIdsOf(nodes)

\* C5: an edge with an endpoint outside the supplied node set is not dropped:
\* the client validation lets it through and every request body carries the
\* nodes and edges unchanged; a result, when one is returned, counts the edge
\* in num_edges and has is_dag false exactly when the edges, those through
\* undeclared nodes included, form a cycle.
ThmC5_UnknownEndpointKept ==
    (pc # "idle" /\ WellFormed(inNodes, inEdges) /\ HasUnknownEndpoint(inNodes, inEdges)) =>
        /\ requests # <<>>
        /\ \A i \in 1..Len(requests) :
                requests[i] = [nodes |-> inNodes.items, edges |-> inEdges.items]
        /\ pc = "resolved" =>
                /\ outcome.data.num_edges = Len(inEdges.items)
                /\ outcome.data.is_dag = ~HasDirectedCycle(inEdges.items)

\* C5 witness: nodes [A], edges (A,B),(B,A): the cycle passes through the
\* undeclared node B and the call resolves with 1 node, 2 edges, is_dag false.
WitC5_CycleThroughUndeclared ==
    /\ pc = "resolved"
    /\ inNodes = ArrayOf(<<NodeObj("A")>>)
    /\ inEdges = ArrayOf(<<EdgeObj("A", "B"), EdgeObj("B", "A")>>)
    /\ outcome.data = DataOf([num_nodes |-> 1, num_edges |-> 2, is_dag |-> FALSE])

\* C7: malformed input is rejected with a VALIDATION_ERROR of status 400 before
\* anything else happens: no request is issued, no retry and no sleep takes
\* place, and the call never gets past the validation.
ThmC7_MalformedRejectedEarly ==
    (pc # "idle" /\ ~WellFormed(inNodes, inEdges)) =>
        /\ pc = "rejected"
        /\ outcome.tag = "error"
        /\ outcome.error.name = "PipelineAPIError"
        /\ outcome.error.type = "VALIDATION_ERROR"
        /\ outcome.error.status = 400
        /\ requests = <<>>
        /\ sleeps = <<>>
        /\ attempt = 0

\* C7 witness: valid nodes and a second edge without target, rejected.
WitC7_EdgeWithoutTarget ==
    /\ pc = "rejected"
    /\ inNodes = ArrayOf(<<NodeObj("A"), NodeObj("B")>>)
    /\ inEdges = ArrayOf(<<EdgeObj("A", "B"), EdgeObj("B", NoId)>>)
    /\ outcome.error.type = "VALIDATION_ERROR"
    /\ requests = <<>>

(***************************************************************************)
(* Properties of the variable scanner (checked under SpecScan).            *)
(***************************************************************************)
AllSpaces(t, from, to) == \A k \in from..to : IsSpace(t[k])

\* The spans of a text: `{{` at open, optional whitespace, body, optional
\* whitespace, `}}`; body is any non-empty stretch of the text.
Spans(t) ==
    UNION {
        {[open |-> p, body |-> SubSeq(t, qe[1], qe[2])] :
            qe \in {x \in ((p + 2)..(r - 1)) \X ((p + 2)..(r - 1)) :
                        /\ x[1] <= x[2]
                        /\ AllSpaces(t, p + 2, x[1] - 1)
                        /\ AllSpaces(t, x[2] + 1, r - 1)}} :
        <<p, r>> \in {y \in (1..Len(t)) \X (1..Len(t)) :
                        /\ y[1] + 2 < y[2]
                        /\ t[y[1]] = "{" /\ t[y[1] + 1] = "{"
                        /\ t[y[2]] = "}" /\ y[2] < Len(t) /\ t[y[2] + 1] = "}"}}

\* The identifier grammar [A-Za-z_$][A-Za-z0-9_$]*.
InGrammar(n) ==
    /\ Len(n) >= 1
    /\ n[1] \in IdentStartChars
    /\ \A k \in 2..Len(n) : n[k] \in IdentPartChars

\* JavaScript position of the first span whose body is n.
FirstOpen(t, n) ==
    LET opens == {s.open : s \in {x \in Spans(t) : x.body = n}}
    IN  (CHOOSE p \in opens : \A o \in opens : p <= o) - 1

Chars(str) ==
    CASE str = "a" -> <<"a">>
      [] str = "b" -> <<"b">>
      [] str = "If" -> <<"I", "f">>
      [] str = "$_1" -> <<"$", "_", "1">>
      [] str = "function" -> <<"f", "u", "n", "c", "t", "i", "o", "n">>

\* C8: extractVariableNames returns each referenced name that
\* isValidJavaScriptVariableName accepts exactly once, ordered by the position
\* of its first occurrence; text without such a name yields the empty sequence.
ThmC8_UniqueInFirstOccurrenceOrder ==
    called = "extractVariableNames" =>
        /\ Range(result) =
              {s.body : s \in {x \in Spans(text) : IsValidJavaScriptVariableName(x.body)}}
        /\ \A i, j \in 1..Len(result) :
              i < j => /\ result[i] # result[j]
                       /\ FirstOpen(text, result[i]) < FirstOpen(text, result[j])

\* C8 witness: "{{ b }}{{a}}{{ b }}" scanned to [b, a].
WitC8_RepeatedName ==
    /\ called = "extractVariableNames"
    /\ text = <<"{", "{", " ", "b", " ", "}", "}", "{", "{", "a", "}", "}",
                "{", "{", " ", "b", " ", "}", "}">>
    /\ result = <<Chars("b"), Chars("a")>>

\* The names a call returned.
ReturnedNames ==
    IF called = "parseVariables" THEN {result[i].name : i \in 1..Len(result)}
    ELSE IF called = "extractVariableNames" THEN Range(result)
    ELSE {}

\* C9: every name parseVariables or extractVariableNames returns matches the
\* identifier grammar and is not a reserved word; {{ function }} yields none.
ThmC9_NamesValid ==
    /\ \A n \in ReturnedNames : InGrammar(n) /\ Join(n) \notin ReservedKeywords
    /\ (called \in {"parseVariables", "extractVariableNames"}
            /\ text = <<"{", "{", " ">> \o Chars("function") \o <<" ", "}", "}">>)
        => result = <<>>

\* C9 witness: "{{ function }}{{a}}" parsed to the one reference a.
WitC9_ReservedSkipped ==
    /\ called = "parseVariables"
    /\ text = <<"{", "{", " ">> \o Chars("function") \o <<" ", "}", "}">>
                \o <<"{", "{", "a", "}", "}">>
    /\ Len(result) = 1
    /\ result[1].name = Chars("a")
    /\ result[1].startIndex = 14

\* C10: a name is in the result of extractVariableNames if and only if the text
\* has a span with that name as body, the name matches the identifier grammar
\* and the name is not one of the words of the reserved-word list.
CexC10_ExactlyTwoExclusionRules ==
    called = "extractVariableNames" =>
        Range(result) =
            {s.body : s \in {x \in Spans(text) :
                                InGrammar(x.body) /\ Join(x.body) \notin ReservedKeywords}}

\* The filter as the code applies it: the reserved-word rule compares the
\* lower-cased name with the list.
ScannerFilterLowerCased ==
    called = "extractVariableNames" =>
        Range(result) =
            {s.body : s \in {x \in Spans(text) :
                                /\ InGrammar(x.body)
                                /\ Join(ToLowerCase(x.body)) \notin ReservedKeywords}}

\* The character of t at 1-based position i is c.
CharIs(t, i, c) == i >= 1 /\ i <= Len(t) /\ t[i] = c

\* C11: a span with nested or unbalanced delimiters produces no variable: no
\* reference parseVariables returns has a further brace directly before its
\* `{{` or directly after its `}}`, as in {{{ name }}}, {{{{name}}}} or {{{name}}.
CexC11_NoPartialMatch ==
    called = "parseVariables" =>
        \A i \in 1..Len(result) :
            /\ ~CharIs(text, result[i].startIndex, "{")
            /\ ~CharIs(text, result[i].endIndex + 1, "}")

\* A brace-free stretch of t from position from to position to.
BraceFree(t, from, to) == \A k \in from..to : t[k] \notin {"{", "}"}

\* The spans `{{` body `}}` of t whose body holds no brace: [open, close] are
\* the 1-based positions of the first `{` and of the last `}`.
PlainSpans(t) ==
    {[open |-> y[1], close |-> y[2] + 1, body |-> SubSeq(t, y[1] + 2, y[2] - 1)] :
        y \in {x \in (1..Len(t)) \X (1..Len(t)) :
                /\ x[1] + 2 <= x[2]
                /\ t[x[1]] = "{" /\ t[x[1] + 1] = "{"
                /\ t[x[2]] = "}" /\ x[2] < Len(t) /\ t[x[2] + 1] = "}"
                /\ BraceFree(t, x[1] + 2, x[2] - 1)}}

\* The plain spans whose body, trimmed, is not as a whole in the grammar.
BadSpans(t) == {sp \in PlainSpans(t) : ~InGrammar(Trim(sp.body))}

\* C12: a span whose trimmed body is not in its entirety a grammar-valid
\* identifier contributes nothing: no reference of parseVariables lies in or
\* overlaps the span, so no prefix or suffix of the body is extracted, and a
\* text that consists of such a span alone yields no name.
ThmC12_InvalidBodyContributesNothing ==
    /\ called = "parseVariables" =>
            \A sp \in BadSpans(text) : \A i \in 1..Len(result) :
                \/ result[i].endIndex < sp.open
                \/ result[i].startIndex >= sp.close
    /\ (/\ called = "extractVariableNames"
        /\ \E sp \in BadSpans(text) : sp.open = 1 /\ sp.close = Len(text))
            => result = <<>>

\* C12 witness: "{{a b}}{{a}}" parsed: the one reference is the second span.
WitC12_BodyWithSpaceSkipped ==
    /\ called = "parseVariables"
    /\ text = <<"{", "{", "a", " ", "b", "}", "}", "{", "{", "a", "}", "}">>
    /\ Len(result) = 1
    /\ result[1].startIndex = 7

\* C15: every reference parseVariables returns is consistent with the text:
\* fullMatch is the text from startIndex up to endIndex, endIndex is startIndex
\* plus the length of fullMatch, fullMatch is `{{`, whitespace, name,
\* whitespace, `}}`, and the references come in strictly increasing startIndex
\* order with ranges that do not overlap.
ThmC15_ReferencesConsistent ==
    called = "parseVariables" =>
        /\ \A i \in 1..Len(result) :
            LET r == result[i] IN
            /\ r.startIndex >= 0
            /\ r.endIndex <= Len(text)
            /\ r.fullMatch = SubSeq(text, r.startIndex + 1, r.endIndex)
            /\ r.endIndex = r.startIndex + Len(r.fullMatch)
            /\ \E a, b \in 0..Len(r.fullMatch) :
                /\ Len(r.fullMatch) = 4 + a + Len(r.name) + b
                /\ r.fullMatch = <<"{", "{">> \o [k \in 1..a |-> r.fullMatch[2 + k]]
                                    \o r.name
                                    \o [k \in 1..b |-> r.fullMatch[2 + a + Len(r.name) + k]]
                                    \o <<"}", "}">>
                /\ AllSpaces(r.fullMatch, 3, 2 + a)
                /\ AllSpaces(r.fullMatch, 3 + a + Len(r.name), 2 + a + Len(r.name) + b)
        /\ \A i \in 1..(Len(result) - 1) :
            /\ result[i].startIndex < result[i + 1].startIndex
            /\ result[i].endIndex <= result[i + 1].startIndex

\* C15 witness: "a{{ b }}{{a}}" parsed to b at [1, 8) and a at [8, 13).
WitC15_TwoReferences ==
    /\ called = "parseVariables"
    /\ text = <<"a", "{", "{", " ", "b", " ", "}", "}", "{", "{", "a", "}", "}">>
    /\ result = <<[name |-> <<"b">>, startIndex |-> 1, endIndex |-> 8,
                   fullMatch |-> <<"{", "{", " ", "b", " ", "}", "}">>],
                  [name |-> <<"a">>, startIndex |-> 8, endIndex |-> 13,
                   fullMatch |-> <<"{", "{", "a", "}", "}">>]>>

(***************************************************************************)
(* Retry policy of submitPipeline (checked under SpecSubmit).              *)
(***************************************************************************)
\* The attempt that failed last failed because the server could not be reached,
\* because the timeout aborted the request, or with a status 500-599.
LastFailureIsTransient ==
    \/ lastError.type = "NETWORK_ERROR"
    \/ lastError.type = "TIMEOUT_ERROR"
    \/ (lastError.status >= 500 /\ lastError.status <= 599)

\* C19: an attempt that fails on a network error, a timeout or a 5xx answer is
\* followed by another attempt, up to MaxRetries attempts: the call is not
\* rejected on such a failure before the attempt MaxRetries.
CexC19_TransientFailuresRetried ==
    (pc = "rejected" /\ attempt >= 1 /\ LastFailureIsTransient) => attempt = MaxRetries

(***************************************************************************)
(* Roots of the traversal (checked under SpecGraph).                       *)
(***************************************************************************)
\* x lies on a directed cycle of the edges.
OnCycle(edges, x) == <<x, x>> \in ClosureSteps(EdgePairs(edges), Cardinality(Ids))

\* x can be reached from s along the edges (s itself included).
Reachable(edges, s, x) ==
    s = x \/ <<s, x>> \in ClosureSteps(EdgePairs(edges), Cardinality(Ids))

\* C20: a cycle that cannot be reached from a start node, in particular from
\* the first node of the node list, is detected: is_dag is false, whatever the
\* order of the node list.
ThmC20_CycleInUnreachableComponent ==
    gCalls >= 1 =>
        \A s \in Range(Vertices(gNodes, gEdges)) :
            (\E x \in Ids : OnCycle(gEdges, x) /\ ~Reachable(gEdges, s, x))
                => ~gResult.is_dag

\* C20 witness: nodes [A,B,C], edges (B,C),(C,B): the cycle cannot be reached
\* from the first node A and the graph is reported cyclic.
WitC20_CycleAwayFromFirstNode ==
    /\ gCalls >= 1
    /\ gNodes = <<"A", "B", "C">>
    /\ gEdges = <<Edge("B", "C"), Edge("C", "B")>>
    /\ gResult = [num_nodes |-> 3, num_edges |-> 2, is_dag |-> FALSE]

\* C13: the scanner cannot fail: on every text, the empty text and texts with
\* unbalanced or repeated braces included, each of the three functions
\* terminates and returns its result: a sequence of references, a sequence of
\* names, or a boolean.
ThmC13_ScannerNeverFails ==
    /\ called \in {"none", "parseVariables", "extractVariableNames", "hasVariables"}
    /\ called = "hasVariables" => result \in BOOLEAN
    /\ called \in {"parseVariables", "extractVariableNames"} =>
            DOMAIN result = 1..Len(result)

\* C13 witness: hasVariables on "{{{{a}}}" (unbalanced, repeated braces) returned.
WitC13_UnbalancedBraces ==
    /\ called = "hasVariables"
    /\ text = <<"{", "{", "{", "{", "a", "}", "}", "}">>
    /\ result = TRUE

(***************************************************************************)
(* Properties of repeated scans (checked under SpecScanSeq).               *)
(***************************************************************************)
\* C14: the result of parseVariables depends on its text argument only: after
\* any scanner calls on any texts, parseVariables(text) returns the references
\* its first call returned, and the shared regex is back at lastIndex 0 after
\* every call.
ThmC14_ResultDependsOnTextOnly ==
    /\ lastIndex = 0
    /\ (called = "parseVariables" /\ sCalls >= 1) => result = sFirst

\* C14 witness: "{{a}}{{ b }}" parsed again after scans of other texts, with
\* the two references of the first call.
WitC14_ParsedAgainAfterOthers ==
    /\ sCalls = 2
    /\ sBetween
    /\ called = "parseVariables"
    /\ text = <<"{", "{", "a", "}", "}", "{", "{", " ", "b", " ", "}", "}">>
    /\ Len(result) = 2

(***************************************************************************)
(* Properties of the text node (checked under SpecTextNode).               *)
(***************************************************************************)
\* C16: after any sequence of edits the text node exposes one handle per distinct
\* valid variable of its current text plus its output handle: the number of
\* handles is the number of scanned variable names plus one.
CexC16_HandlePerVariable ==
    /\ detectedVariables = DetectVariables(currText)
    /\ Len(handles) = Len(detectedVariables) + 1

(***************************************************************************)
(* Properties of the submit button (checked under SpecButton).             *)
(***************************************************************************)
\* C17: the submit button prevents simultaneous submissions: at most one
\* submitPipeline call of the component is pending at any time, and while one
\* is pending the button is disabled.
CexC17_OneSubmissionAtATime ==
    /\ inFlight <= 1
    /\ inFlight >= 1 => ButtonDisabled

\* A submitPipeline call of the component rejects and the rejection is handled.
RejectionHandled == \E e \in UiErrors : SubmitRejects(e)

\* C18: when the API call of a submission rejects, with whatever error, the
\* component is left not loading, the button enabled with the label
\* 'Submit Pipeline' and an error modal with a Close action displayed, also
\* after several failures in a row; the component never stays loading for ever.
ThmC18_RejectionLeavesButtonUsable ==
    /\ [][RejectionHandled =>
            (/\ ~isLoading
             /\ ~ButtonDisabled
             /\ ButtonLabel = "Submit Pipeline"
             /\ ErrorModalShown
             /\ Contains(ErrorActions, "Close"))']_vars
    /\ (isLoading ~> ~isLoading)

\* C18 witness: the second retry in a row has failed; the modal is displayed and
\* the button is enabled.
WitC18_FailedAgainAfterRetries ==
    /\ retryCount = 2
    /\ inFlight = 0
    /\ healthChecks = 0
    /\ ErrorModalShown
    /\ errorState.name = "Error"
    /\ ButtonLabel = "Submit Pipeline"

(***************************************************************************)
(* Further properties of PipelineAPI (checked under SpecSubmit).           *)
(***************************************************************************)
\* Element i of a nodes / edges array is one validatePipelineData refuses.
InvalidNodeAt(nodes, i) ==
    nodes.items[i].kind # "obj" \/ nodes.items[i].id = NoId
InvalidEdgeAt(edges, i) ==
    \/ edges.items[i].kind # "obj"
    \/ edges.items[i].source = NoId
    \/ edges.items[i].target = NoId

\* The lowest index (JavaScript's, from 0) of a refused element; -1 if none.
LowestInvalidNode(nodes) ==
    LET bad == {i \in 1..Len(nodes.items) : InvalidNodeAt(nodes, i)} IN
    IF bad = {} THEN -1 ELSE (CHOOSE i \in bad : \A j \in bad : i <= j) - 1
LowestInvalidEdge(edges) ==
    LET bad == {i \in 1..Len(edges.items) : InvalidEdgeAt(edges, i)} IN
    IF bad = {} THEN -1 ELSE (CHOOSE i \in bad : \A j \in bad : i <= j) - 1

\* C21: when the input has several malformed elements the one error reported
\* describes the first offending element: nodes that is no array before edges
\* that is no array, then the lowest-index invalid node, and only when every
\* node is valid the lowest-index invalid edge; the message carries that index.
ThmC21_FirstOffendingElementReported ==
    (pc # "idle" /\ ~WellFormed(inNodes, inEdges)) =>
        LET m == outcome.error.message IN
        /\ outcome.tag = "error"
        /\ IF ~inNodes.isArray
           THEN m = <<"Invalid pipeline data: ", "nodes must be an array">>
           ELSE IF ~inEdges.isArray
           THEN m = <<"Invalid pipeline data: ", "edges must be an array">>
           ELSE IF LowestInvalidNode(inNodes) >= 0
           THEN /\ Len(m) = 6
                /\ m[2] = "node"
                /\ m[4] = ToString(LowestInvalidNode(inNodes))
           ELSE /\ Len(m) = 6
                /\ m[2] = "edge"
                /\ m[4] = ToString(LowestInvalidEdge(inEdges))

\* C21 witness: two invalid nodes (indices 0 and 1) and an invalid edge; the
\* error names node 0.
WitC21_SeveralMalformedElements ==
    /\ pc = "rejected"
    /\ inNodes = ArrayOf(<<NodeObj(NoId), NullVal>>)
    /\ inEdges = ArrayOf(<<PrimVal>>)
    /\ outcome.error.message[2] = "node"
    /\ outcome.error.message[4] = "0"

\* The call has returned or thrown.
Terminated == pc \in {"resolved", "rejected"}

\* C22: a call of submitPipeline with valid input issues at least one and at
\* most maxRetries requests, and when every request settles the call resolves
\* or rejects; it never retries for ever.
ThmC22_BoundedRequestsAndTermination ==
    /\ [](Len(requests) <= MaxRetries)
    /\ []((Terminated /\ WellFormed(inNodes, inEdges)) => Len(requests) >= 1)
    /\ (~Terminated ~> Terminated)

\* C22 witness: three requests were issued and the call has rejected.
WitC22_ThreeRequestsThenRejected ==
    /\ pc = "rejected"
    /\ WellFormed(inNodes, inEdges)
    /\ Len(requests) = MaxRetries
    /\ attempt = MaxRetries

\* The error has none of the marks the retry rule looks for: it is no TypeError,
\* its message holds no retry keyword and its status is no 5xx.
HasNoRetryMark(e) ==
    /\ e.name # "TypeError"
    /\ \A i \in 1..Len(e.message) :
            e.message[i] \notin {"Failed to fetch", "NetworkError", "timeout"}
    /\ ~(e.status >= 500 /\ e.status <= 599)

\* C23: when an attempt fails with an error the retry rule rejects, the call
\* rejects with that same error at once: the failed request is the last one,
\* no backoff delay follows it and the error is not wrapped in
\* MAX_RETRIES_EXCEEDED.
ThmC23_NonRetryableRethrownAtOnce ==
    (pc # "idle" /\ lastError # NoError /\ HasNoRetryMark(lastError)) =>
        /\ pc = "rejected"
        /\ outcome.tag = "error"
        /\ outcome.error = lastError
        /\ outcome.error.type # "MAX_RETRIES_EXCEEDED"
        /\ Len(requests) = attempt
        /\ Len(sleeps) = attempt - 1

\* C23 witness: the first attempt got a 500, the second a 400 without retry
\* keyword; the call rejected with the HTTP_ERROR of status 400 after 2 requests.
WitC23_ClientErrorOnSecondAttempt ==
    /\ pc = "rejected"
    /\ attempt = 2
    /\ Len(requests) = 2
    /\ sleeps = <<1000>>
    /\ outcome.error.type = "HTTP_ERROR"
    /\ outcome.error.status = 400

ThmC25_ExponentialBackoffBetweenAttempts ==
    /\ Len(sleeps) <= MaxRetries - 1
    /\ sleeps = SubSeq(<<1000, 2000>>, 1, Len(sleeps))
    /\ requests = <<>> => sleeps = <<>>
    /\ pc = "sleeping" => (Len(sleeps) = Len(requests) /\ attempt < MaxRetries)
    /\ (pc # "sleeping" /\ requests # <<>>) => Len(sleeps) = Len(requests) - 1
    /\ (Terminated /\ attempt >= 1) => Len(sleeps) = attempt - 1

\* C25 witness: two failed attempts, waits of 1000 and 2000, then the third
\* attempt succeeded and no wait followed.
WitC25_TwoWaitsThenSuccess ==
    /\ pc = "resolved"
    /\ attempt = 3
    /\ Len(requests) = 3
    /\ sleeps = <<1000, 2000>>

ClientErrorTypes ==
    {"VALIDATION_ERROR", "HTTP_ERROR", "TIMEOUT_ERROR", "NETWORK_ERROR",
     "UNKNOWN_ERROR", "INVALID_RESPONSE", "MAX_RETRIES_EXCEEDED"}
ServerErrorTypes == {b.error : b \in {x \in ErrorBodies : x.json /\ x.error # ""}}

\* C27: every error that escapes submitPipeline is a PipelineAPIError with a
\* type of the client's taxonomy or a server-supplied type, for every way a
\* request can fail, a 2xx response whose body is no JSON included.
CexC27_OnlyPipelineAPIErrorsEscape ==
    pc = "rejected" =>
        /\ outcome.tag = "error"
        /\ outcome.error.name = "PipelineAPIError"
        /\ outcome.error.type \in ClientErrorTypes \cup ServerErrorTypes

\* The errors for which only 'Close' is to be offered, and those for which
\* 'Retry' is.
OnlyCloseCase(e) ==
    \/ e.name # "PipelineAPIError"
    \/ e.type = "VALIDATION_ERROR"
    \/ (e.type = "HTTP_ERROR" /\ e.status < 500)
RetryCase(e) ==
    /\ e.name = "PipelineAPIError"
    /\ \/ e.type \in {"NETWORK_ERROR", "TIMEOUT_ERROR", "MAX_RETRIES_EXCEEDED",
                     "INVALID_RESPONSE"}
       \/ (e.type = "HTTP_ERROR" /\ e.status >= 500)
       \/ e.type \notin {"NETWORK_ERROR", "TIMEOUT_ERROR", "VALIDATION_ERROR",
                        "HTTP_ERROR", "MAX_RETRIES_EXCEEDED", "INVALID_RESPONSE"}

\* C28: for every error getErrorDetails is given, the actions contain 'Close',
\* and contain 'Retry' exactly when canRetry is true; an error that is no
\* PipelineAPIError (titled 'Unexpected Error'), a VALIDATION_ERROR and an
\* HTTP_ERROR of a status below 500 offer 'Close' alone; NETWORK_ERROR,
\* TIMEOUT_ERROR, HTTP_ERROR of status 500 and above, MAX_RETRIES_EXCEEDED,
\* INVALID_RESPONSE and unknown types offer 'Retry'.
ThmC28_ActionsMatchCanRetry ==
    ErrorModalShown =>
        LET d == GetErrorDetails(errorState)
            offered == Range(d.actions)
        IN  /\ "Close" \in offered
            /\ ("Retry" \in offered) <=> d.canRetry
            /\ OnlyCloseCase(errorState) \/ RetryCase(errorState)
            /\ OnlyCloseCase(errorState) => d.actions = <<"Close">>
            /\ RetryCase(errorState) => "Retry" \in offered
            /\ errorState.name # "PipelineAPIError" => d.title = "Unexpected Error"

\* C28 witness: the modal shows an HTTP_ERROR of status 404, with 'Close' alone.
WitC28_NotFoundOffersCloseOnly ==
    /\ ErrorModalShown
    /\ errorState.type = "HTTP_ERROR"
    /\ errorState.status = 404
    /\ ErrorActions = <<"Close">>
    /\ ~GetErrorDetails(errorState).canRetry

\* What the component renders besides the error modal.
SuccessModalShown == successData # NoData

\* C29: in every reachable state of the submit button at most one result is
\* shown: the error state and the success state are never both set, so the
\* modal displayed reflects the most recent submission only.
CexC29_AtMostOneResultShown ==
    ~(ErrorModalShown /\ SuccessModalShown)

(***************************************************************************)
(* Properties of BaseNode (checked under SpecBaseNode).                    *)
(***************************************************************************)
\* The id a handle is expected to carry: its configured id, or the fallback
\* '<nodeId>-<type>-<index>' with the index in config.handles.
ExpectedHandleId(i) ==
    IF cfgHandles[i].id # NoId THEN cfgHandles[i].id
    ELSE NodeId \o "-" \o cfgHandles[i].type \o "-" \o ToString(i - 1)

\* The rendered handles are one per entry of config.handles, in that order, each
\* with its type, position and id.
RenderedAsConfigured ==
    /\ Len(rendered) = Len(cfgHandles)
    /\ \A i \in 1..Len(cfgHandles) :
            i <= Len(rendered) =>
                /\ rendered[i].type = cfgHandles[i].type
                /\ rendered[i].position = cfgHandles[i].position
                /\ rendered[i].id = ExpectedHandleId(i)

\* C30: BaseNode renders exactly one handle per entry of config.handles, in the
\* order of config.handles, each with its configured type and position and with
\* its configured id or the fallback id '<nodeId>-<type>-<index>', for every
\* mix of handle positions.
CexC30_HandlesRenderedAsConfigured ==
    renderedBy # "none" => RenderedAsConfigured

====
